---- MODULE Spec2Model ----
(***************************************************************************)
(* Transaction lifecycle and referral-commission settlement of the digital *)
(* top-up backend (server/src/handlers/transactions.ts, referrals.ts).     *)
(*                                                                         *)
(* The persistent store is the only shared state.  Every caller-facing     *)
(* operation is run by one of a few request slots (Procs); an operation    *)
(* that awaits the store more than once and touches a mutable table is     *)
(* split at its awaits, so that concurrent requests interleave between     *)
(* them exactly as they can on the server.                                 *)
(*                                                                         *)
(* Money: the numeric(10,2) columns are modelled as integers counting      *)
(* hundredths of a currency unit.  Caller-supplied amounts are whole       *)
(* currency units.                                                         *)
(***************************************************************************)
EXTENDS Integers, Sequences, FiniteSets, TLC

\* ------------------------------------------------------------------ bounds
\* request slots that may run concurrently
NumProcs == 2
\* total number of operation calls started in one behaviour
MaxCalls == 3
\* stored transactions in the store the read queries run over
MaxRows == 3

Procs == 1..NumProcs

\* ------------------------------------------------------------- null values
\* SQL NULL / JS undefined in a numeric position
NullNum == -1
\* SQL NULL / JS undefined in a text or jsonb position
NullStr == "null"

\* scale of the numeric(10,2) columns: stored value = units * 100
Scale == 100

\* JS truthiness of a possibly absent number: undefined, null and 0 are falsy
TruthyNum(x) == x # NullNum /\ x # 0

\* JS truthiness of a possibly absent string/object: undefined, null, "" falsy
TruthyStr(s) == s # NullStr /\ s # ""

\* number.toString() written into a numeric(10,2) column (whole units in)
ToNumeric(units) == units * Scale

\* ------------------------------------------------------------ fixture data
\* users: the referrer (no referrer of its own) and a user referred by it
UsersFixture ==
  << [id |-> 1, email |-> "referrer@test.com", full_name |-> "Referrer User",
      referral_code |-> "REF001", referred_by_id |-> NullNum],
     [id |-> 2, email |-> "user@test.com", full_name |-> "Test User",
      referral_code |-> "REF002", referred_by_id |-> 1] >>

\* products: a fixed one, a range one with both bounds, an inactive one
ProductsFixture ==
  << [id |-> 1, sku |-> "MOBILE_001", price |-> ToNumeric(5500), is_active |-> TRUE,
      denomination_type |-> "fixed", min_amount |-> NullNum, max_amount |-> NullNum],
     [id |-> 2, sku |-> "DATA_RANGE", price |-> ToNumeric(10000), is_active |-> TRUE,
      denomination_type |-> "range", min_amount |-> ToNumeric(5000),
      max_amount |-> ToNumeric(50000)],
     [id |-> 3, sku |-> "INACTIVE_PROD", price |-> ToNumeric(1000), is_active |-> FALSE,
      denomination_type |-> "fixed", min_amount |-> NullNum, max_amount |-> NullNum] >>

\* ------------------------------------------------------------ input spaces
\* user_id / product_id arguments: the stored ids and one that matches nothing
UserIdInputs == 1..(Len(UsersFixture) + 1)
ProductIdInputs == 1..(Len(ProductsFixture) + 1)

\* amount argument (whole units): omitted, zero, below / inside / above the
\* range product's bounds, and one whose 5% is not a whole unit
AmountInputs == {NullNum, 0, 1000, 5510, 25000, 100000}

\* values generateTransactionId can return
TransactionIdPool == {"TXN_1", "TXN_2"}

\* transaction_id argument of the status callback
TransactionIdInputs == TransactionIdPool \cup {"NON_EXISTENT"}

\* transactionStatusSchema
TransactionStatus == {"pending", "processing", "success", "failed", "cancelled"}


VARIABLES
  users,         \* usersTable rows, index = id
  products,      \* productsTable rows, index = id
  transactions,  \* transactionsTable rows, index = id
  referrals,     \* referralsTable rows, index = id
  calls,         \* number of calls started so far; also the store's clock
  pc,            \* per request slot: where the running call is
  inp,           \* per request slot: the running call's input
  loc,           \* per request slot: the running call's local variables
  ret            \* what the most recently finished call returned or threw

vars == <<users, products, transactions, referrals, calls, pc, inp, loc, ret>>

store == <<users, products, transactions, referrals>>

\* ------------------------------------------------------------ call results
\* op: the operation that finished; kind: none | null | throw | value
NoRet == [op |-> "", kind |-> "none", msg |-> "", val |-> <<>>]
RetNull(o) == [op |-> o, kind |-> "null", msg |-> "", val |-> <<>>]
RetThrow(o, m) == [op |-> o, kind |-> "throw", msg |-> m, val |-> <<>>]
RetValue(o, row) == [op |-> o, kind |-> "value", msg |-> "", val |-> <<row>>]

NoInput == <<>>
NoLocals == <<>>

\* new Date() / defaultNow(): the clock advances once per call
Date_now == calls

Init ==
  /\ users = UsersFixture
  /\ products = ProductsFixture
  /\ transactions = <<>>
  /\ referrals = <<>>
  /\ calls = 0
  /\ pc = [p \in Procs |-> "idle"]
  /\ inp = [p \in Procs |-> NoInput]
  /\ loc = [p \in Procs |-> NoLocals]
  /\ ret = NoRet

\* a new call takes the first free slot (the slots are interchangeable)
CanStart(p) ==
  /\ pc[p] = "idle"
  /\ calls < MaxCalls
  /\ \A q \in Procs : q < p => pc[q] # "idle"

\* the call of slot p ends with outcome r
Finish(p, r) ==
  /\ pc' = [pc EXCEPT ![p] = "idle"]
  /\ inp' = [inp EXCEPT ![p] = NoInput]
  /\ loc' = [loc EXCEPT ![p] = NoLocals]
  /\ ret' = r

\* ------------------------------------------------------- createTransaction
\* parseFloat of a numeric column, then back through toString: identity on
\* hundredths, so rows returned to the caller carry the stored numbers
convertDbTransaction(row) == row

\* variant: an omitted amount is not defaulted to the product's price
finalAmount_noDefault(amount, product) ==
  IF TruthyNum(amount) THEN ToNumeric(amount) ELSE 0

\* finalAmount (hundredths): input.amount || parseFloat(product.price)
finalAmount(amount, product) ==
  IF TruthyNum(amount) THEN ToNumeric(amount) ELSE product.price

\* the bound the amount violates, "" if none
amountViolation(amt, product) ==
  IF product.denomination_type = "range"
  THEN IF product.min_amount # NullNum /\ amt < product.min_amount
       THEN "Amount must be at least"
       ELSE IF product.max_amount # NullNum /\ amt > product.max_amount
            THEN "Amount must not exceed"
            ELSE ""
  ELSE ""

\* variant: the is_active test of line 56 is dropped
createTransactionError_noActiveCheck(input) ==
  IF ~ (input.user_id \in 1..Len(users)) THEN "User not found"
  ELSE IF ~ (input.product_id \in 1..Len(products)) THEN "Product not found"
  ELSE amountViolation(finalAmount(input.amount, products[input.product_id]),
                       products[input.product_id])

\* the outcome of the validation steps 1-3, "" when the insert is reached
createTransactionError(input) ==
  IF ~ (input.user_id \in 1..Len(users)) THEN "User not found"
  ELSE IF ~ (input.product_id \in 1..Len(products)) THEN "Product not found"
  ELSE IF ~ products[input.product_id].is_active THEN "Product is not active"
  ELSE amountViolation(finalAmount(input.amount, products[input.product_id]),
                       products[input.product_id])

\* variant: transactions.transaction_id declared without .unique()
TransactionIdTaken_noConstraint(tid) == FALSE

\* the unique constraint on transactions.transaction_id
TransactionIdTaken(tid) ==
  \E i \in 1..Len(transactions) : transactions[i].transaction_id = tid

newTransaction(input, tid) ==
  [id |-> Len(transactions) + 1,
   user_id |-> input.user_id,
   product_id |-> input.product_id,
   transaction_id |-> tid,
   external_transaction_id |-> NullStr,
   amount |-> finalAmount(input.amount, products[input.product_id]),
   price |-> products[input.product_id].price,
   status |-> "pending",
   digiflazz_response |-> NullStr,
   created_at |-> Date_now + 1,
   updated_at |-> Date_now + 1]

\* users and products are never written by the operations of this
\* specification, so the two lookups and the insert are taken in one step
createTransaction(p, input, tid) ==
  /\ CanStart(p)
  /\ calls' = calls + 1
  /\ UNCHANGED <<users, products, referrals>>
  /\ IF createTransactionError(input) # ""
     THEN /\ UNCHANGED transactions
          /\ Finish(p, RetThrow("createTransaction", createTransactionError(input)))
     ELSE IF TransactionIdTaken(tid)
          THEN /\ UNCHANGED transactions
               /\ Finish(p, RetThrow("createTransaction", "unique constraint: transaction_id"))
          ELSE /\ transactions' = Append(transactions, newTransaction(input, tid))
               /\ Finish(p, RetValue("createTransaction", convertDbTransaction(newTransaction(input, tid))))

\* -------------------------------------------------- updateTransactionStatus
\* Math.round(amount * 0.05) on parseFloat(amount), written back with
\* toString(): amount and result in hundredths, the result a whole unit
calculateCommission(amount) ==
  ToNumeric((5 * amount + 50 * Scale) \div (100 * Scale))

\* the row the UPDATE ... SET writes over a matching row
updatedTransaction(row, input) ==
  [row EXCEPT
     !.status = input.status,
     !.external_transaction_id =
        IF TruthyStr(input.external_transaction_id)
        THEN input.external_transaction_id ELSE NullStr,
     !.digiflazz_response =
        IF TruthyStr(input.digiflazz_response)
        THEN input.digiflazz_response ELSE NullStr,
     !.updated_at = Date_now + 1]

\* WHERE transaction_id = input.transaction_id
MatchesTransactionId(row, tid) == row.transaction_id = tid

\* UPDATE transactions SET ... WHERE ... applied to the whole table
updateTransactionsTable(table, input) ==
  [i \in 1..Len(table) |->
     IF MatchesTransactionId(table[i], input.transaction_id)
     THEN updatedTransaction(table[i], input)
     ELSE table[i]]

\* ... RETURNING: the rows that were written, in id order
updateReturning(table, input) ==
  SelectSeq(updateTransactionsTable(table, input),
            LAMBDA row : MatchesTransactionId(row, input.transaction_id))

\* variant: settlement also runs while the order is still processing
triggersSettlement_processing(status) == status \in {"success", "processing"}

\* step 2 of updateTransactionStatus: settlement runs for this status
triggersSettlement(status) == status = "success"

\* lines 104-127: the UPDATE, the early return and the branch to settlement
updateTransactionStatus(p, input) ==
  /\ CanStart(p)
  /\ calls' = calls + 1
  /\ UNCHANGED <<users, products, referrals>>
  /\ transactions' = updateTransactionsTable(transactions, input)
  /\ IF Len(updateReturning(transactions, input)) = 0
     THEN Finish(p, RetNull("updateTransactionStatus"))
     ELSE IF triggersSettlement(input.status)
          THEN /\ pc' = [pc EXCEPT ![p] = "prc_select"]
               /\ inp' = [inp EXCEPT ![p] = <<input>>]
               /\ loc' = [loc EXCEPT ![p] = <<updateReturning(transactions, input)[1]>>]
               /\ UNCHANGED ret
          ELSE Finish(p, RetValue("updateTransactionStatus",
                        convertDbTransaction(updateReturning(transactions, input)[1])))

\* SELECT ... FROM users WHERE id = userId LIMIT 1
selectUserById(userId) ==
  SelectSeq(users, LAMBDA u : u.id = userId)

\* variant: the referred_by_id test of line 144 is dropped
hasReferrer_anyUser(user) == Len(user) > 0

\* line 144: the buyer exists and has a referrer
hasReferrer(user) == Len(user) > 0 /\ TruthyNum(user[1].referred_by_id)

\* lines 138-144 of the internal processReferralCommission: the lookup
processReferralCommission_select(p) ==
  /\ pc[p] = "prc_select"
  /\ UNCHANGED <<store, calls>>
  /\ IF hasReferrer(selectUserById(loc[p][1].user_id))
     THEN /\ pc' = [pc EXCEPT ![p] = "prc_insert"]
          /\ loc' = [loc EXCEPT ![p] =
                       <<loc[p][1], selectUserById(loc[p][1].user_id)[1]>>]
          /\ UNCHANGED <<inp, ret>>
     ELSE Finish(p, RetValue("updateTransactionStatus", convertDbTransaction(loc[p][1])))

\* the constraints the store checks on an insert into referrals (the table
\* declares a primary key on id and no other unique column)
referralInsertRejected(row) == FALSE

\* the row lines 148-155 insert; is_paid takes the column default
settlementReferral(transaction, user) ==
  [id |-> Len(referrals) + 1,
   referrer_id |-> user.referred_by_id,
   referred_id |-> transaction.user_id,
   commission_amount |-> calculateCommission(transaction.amount),
   transaction_id |-> transaction.id,
   is_paid |-> FALSE,
   created_at |-> Date_now]

\* lines 145-155 of the internal processReferralCommission: the insert
processReferralCommission_insert(p) ==
  /\ pc[p] = "prc_insert"
  /\ UNCHANGED <<users, products, transactions, calls>>
  /\ referrals' =
       IF referralInsertRejected(settlementReferral(loc[p][1], loc[p][2]))
       THEN referrals
       ELSE Append(referrals, settlementReferral(loc[p][1], loc[p][2]))
  /\ Finish(p, RetValue("updateTransactionStatus", convertDbTransaction(loc[p][1])))

\* variant: the catch block rethrows, as every other handler's does
processReferralCommission_rethrow(p) ==
  /\ pc[p] \in {"prc_select", "prc_insert"}
  /\ UNCHANGED <<store, calls>>
  /\ Finish(p, RetThrow("updateTransactionStatus", "store failure"))

\* lines 157-160: the lookup or the insert fails in the store; the error is
\* logged and swallowed, and updateTransactionStatus returns the transaction
processReferralCommission_catch(p) ==
  /\ pc[p] \in {"prc_select", "prc_insert"}
  /\ UNCHANGED <<store, calls>>
  /\ Finish(p, RetValue("updateTransactionStatus", convertDbTransaction(loc[p][1])))

\* ------------------------------- referrals.processCommission (exported)
\* parseFloat(price) * 0.05 written with toString() into numeric(10,2):
\* 5% of the price in hundredths, rounded to the column's scale
exportedCommission(price) == (5 * price + 50) \div 100

\* transactions INNER JOIN users WHERE transactions.id = transactionId
selectTransactionWithUser(transactionId) ==
  SelectSeq(transactions,
            LAMBDA t : t.id = transactionId /\ Len(selectUserById(t.user_id)) > 0)

\* lines 887-905 of the exported processReferralCommission: the lookup
referrals_processReferralCommission(p, transactionId) ==
  /\ CanStart(p)
  /\ calls' = calls + 1
  /\ UNCHANGED store
  /\ IF Len(selectTransactionWithUser(transactionId)) = 0
     THEN Finish(p, RetNull("processReferralCommission"))
     ELSE IF ~ TruthyNum(selectUserById(
                   selectTransactionWithUser(transactionId)[1].user_id)[1].referred_by_id)
          THEN Finish(p, RetNull("processReferralCommission"))
          ELSE /\ pc' = [pc EXCEPT ![p] = "xprc_insert"]
               /\ inp' = [inp EXCEPT ![p] = <<transactionId>>]
               /\ loc' = [loc EXCEPT ![p] =
                    <<selectTransactionWithUser(transactionId)[1],
                      selectUserById(selectTransactionWithUser(transactionId)[1].user_id)[1]>>]
               /\ UNCHANGED ret

\* the row lines 912-919 insert
exportedReferral(transactionId, transaction, user) ==
  [id |-> Len(referrals) + 1,
   referrer_id |-> user.referred_by_id,
   referred_id |-> user.id,
   commission_amount |-> exportedCommission(transaction.price),
   transaction_id |-> transactionId,
   is_paid |-> FALSE,
   created_at |-> Date_now]

\* lines 907-927 of the exported processReferralCommission: the insert
referrals_processReferralCommission_insert(p) ==
  /\ pc[p] = "xprc_insert"
  /\ UNCHANGED <<users, products, transactions, calls>>
  /\ IF referralInsertRejected(exportedReferral(inp[p][1], loc[p][1], loc[p][2]))
     THEN /\ UNCHANGED referrals
          /\ Finish(p, RetThrow("processReferralCommission", "unique constraint"))
     ELSE /\ referrals' = Append(referrals, exportedReferral(inp[p][1], loc[p][1], loc[p][2]))
          /\ Finish(p, RetValue("processReferralCommission",
                                exportedReferral(inp[p][1], loc[p][1], loc[p][2])))

\* ------------------------------------------------- referral ledger handlers
\* variant: the UPDATE flips the flag instead of setting it
markedPaid_toggle(row) == [row EXCEPT !.is_paid = ~ row.is_paid]

\* .set({ is_paid: true }) over a matching row
markedPaid(row) == [row EXCEPT !.is_paid = TRUE]

\* variant: the UPDATE has no WHERE clause
MatchesReferralId_all(row, referralId) == TRUE

\* WHERE referrals.id = referralId
MatchesReferralId(row, referralId) == row.id = referralId

\* variant: the UPDATE also rewrites the referrer of the matched row
updateReferralsTable_reassign(table, referralId) ==
  [i \in 1..Len(table) |->
     IF MatchesReferralId(table[i], referralId)
     THEN [markedPaid(table[i]) EXCEPT !.referrer_id = table[i].referred_id]
     ELSE table[i]]

\* UPDATE referrals SET is_paid = true WHERE id = referralId
updateReferralsTable(table, referralId) ==
  [i \in 1..Len(table) |->
     IF MatchesReferralId(table[i], referralId)
     THEN markedPaid(table[i])
     ELSE table[i]]

\* ... RETURNING: the rows that were written
updatedReferrals(table, referralId) ==
  SelectSeq(updateReferralsTable(table, referralId),
            LAMBDA row : MatchesReferralId(row, referralId))

\* parseFloat of commission_amount: identity on hundredths
convertDbReferral(row) == row

\* markReferralAsPaid: one UPDATE ... RETURNING, null when nothing matched
markReferralAsPaid(p, referralId) ==
  /\ CanStart(p)
  /\ calls' = calls + 1
  /\ UNCHANGED <<users, products, transactions>>
  /\ referrals' = updateReferralsTable(referrals, referralId)
  /\ IF Len(updatedReferrals(referrals, referralId)) = 0
     THEN Finish(p, RetNull("markReferralAsPaid"))
     ELSE Finish(p, RetValue("markReferralAsPaid",
                     convertDbReferral(updatedReferrals(referrals, referralId)[1])))

\* SELECT * FROM referrals WHERE referrer_id = userId (rows in id order)
selectReferralsByReferrer(userId) ==
  SelectSeq(referrals, LAMBDA r : r.referrer_id = userId)

\* rows.reduce((sum, r) => sum + r.commission_amount, 0)
RECURSIVE reduceCommission(_)
reduceCommission(rows) ==
  IF rows = <<>> THEN 0
  ELSE reduceCommission(SubSeq(rows, 1, Len(rows) - 1))
         + rows[Len(rows)].commission_amount

\* variant: pending earnings are summed over every record
pendingEarnings_all(rows) == reduceCommission(rows)

\* convertedReferrals.filter(r => !r.is_paid).reduce(...)
pendingEarnings(rows) ==
  reduceCommission(SelectSeq(rows, LAMBDA r : ~ r.is_paid))

\* convertedReferrals.filter(r => r.is_paid).reduce(...)
paidEarnings(rows) ==
  reduceCommission(SelectSeq(rows, LAMBDA r : r.is_paid))

\* the summary lines 944-970 build for userId
referralEarnings(userId) ==
  [total_earnings |-> reduceCommission(selectReferralsByReferrer(userId)),
   pending_earnings |-> pendingEarnings(selectReferralsByReferrer(userId)),
   paid_earnings |-> paidEarnings(selectReferralsByReferrer(userId)),
   total_referrals |-> Len(selectReferralsByReferrer(userId)),
   referrals |-> selectReferralsByReferrer(userId)]

\* getUserReferralEarnings: one SELECT, then sums in memory
getUserReferralEarnings(p, userId) ==
  /\ CanStart(p)
  /\ calls' = calls + 1
  /\ UNCHANGED store
  /\ Finish(p, RetValue("getUserReferralEarnings", referralEarnings(userId)))

\* variant: the status test is missing from the join condition
joinsTransaction_anyStatus(u, t) == t.user_id = u.id

\* LEFT JOIN transactions ON user_id = users.id AND status = 'success'
joinsTransaction(u, t) == t.user_id = u.id /\ t.status = "success"

\* the transactions joined to the user row u
joinedTransactions(u) ==
  SelectSeq(transactions, LAMBDA t : joinsTransaction(u, t))

\* COALESCE(SUM(transactions.price), 0) over the joined rows
RECURSIVE sumPrice(_)
sumPrice(rows) ==
  IF rows = <<>> THEN 0
  ELSE sumPrice(SubSeq(rows, 1, Len(rows) - 1)) + rows[Len(rows)].price

\* one output row of the GROUP BY users.id: count(transactions.id) counts
\* the joined rows, none when the left join found no transaction
referredUserRow(u) ==
  [id |-> u.id,
   full_name |-> u.full_name,
   email |-> u.email,
   total_transactions |-> Len(joinedTransactions(u)),
   total_spent |-> sumPrice(joinedTransactions(u))]

\* WHERE users.referred_by_id = userId (groups in id order)
selectReferredUsers(userId) ==
  SelectSeq(users, LAMBDA u : u.referred_by_id = userId)

\* the result lines 991-1021 build for userId
referredUsers(userId) ==
  [referred_users |->
     [i \in 1..Len(selectReferredUsers(userId)) |->
        referredUserRow(selectReferredUsers(userId)[i])],
   total_referred |-> Len(selectReferredUsers(userId))]

\* getUserReferrals: one aggregate query
getUserReferrals(p, userId) ==
  /\ CanStart(p)
  /\ calls' = calls + 1
  /\ UNCHANGED store
  /\ Finish(p, RetValue("getUserReferrals", referredUsers(userId)))

\* ---------------------------------------------------------- auth.register
\* SELECT * FROM users WHERE email = ...
selectUsersByEmail(email) == SelectSeq(users, LAMBDA u : u.email = email)

\* SELECT * FROM users WHERE referral_code = ...
selectUsersByReferralCode(code) ==
  SelectSeq(users, LAMBDA u : u.referral_code = code)

\* lines 89-96: the pre-check on the email; the call goes on to the code loop
register(p, input) ==
  /\ CanStart(p)
  /\ calls' = calls + 1
  /\ UNCHANGED store
  /\ IF Len(selectUsersByEmail(input.email)) > 0
     THEN Finish(p, RetThrow("register", "User with this email already exists"))
     ELSE /\ pc' = [pc EXCEPT ![p] = "reg_code"]
          /\ inp' = [inp EXCEPT ![p] = <<input>>]
          /\ UNCHANGED <<loc, ret>>

\* lines 104-111: one turn of the do-while loop with the candidate that
\* generateReferralCode returned; a candidate that is stored means another
\* turn
register_generateReferralCode(p, referralCode) ==
  /\ pc[p] = "reg_code"
  /\ UNCHANGED <<store, calls, inp, ret>>
  /\ IF Len(selectUsersByReferralCode(referralCode)) = 0
     THEN /\ pc' = [pc EXCEPT ![p] = "reg_referrer"]
          /\ loc' = [loc EXCEPT ![p] = <<referralCode>>]
     ELSE UNCHANGED <<pc, loc>>

\* variant: the referrer lookup is skipped
referrerIdOf_none(code) == NullNum

\* lines 114-124: referrerId, null unless the supplied code is truthy and
\* belongs to a stored user
referrerIdOf(code) ==
  IF TruthyStr(code) /\ Len(selectUsersByReferralCode(code)) > 0
  THEN selectUsersByReferralCode(code)[1].id
  ELSE NullNum

\* lines 113-124: the referrer lookup
register_findReferrer(p) ==
  /\ pc[p] = "reg_referrer"
  /\ UNCHANGED <<store, calls, inp, ret>>
  /\ pc' = [pc EXCEPT ![p] = "reg_insert"]
  /\ loc' = [loc EXCEPT ![p] = <<loc[p][1], referrerIdOf(inp[p][1].referral_code)>>]

\* variant: users.email declared without .unique()
EmailTaken_noConstraint(email) == FALSE

\* the unique constraint on users.email
EmailTaken(email) == \E i \in 1..Len(users) : users[i].email = email

\* the unique constraint on users.referral_code
ReferralCodeTaken(code) ==
  \E i \in 1..Len(users) : users[i].referral_code = code

\* the row lines 127-135 insert
newUser(input, referralCode, referrerId) ==
  [id |-> Len(users) + 1,
   email |-> input.email,
   full_name |-> input.full_name,
   referral_code |-> referralCode,
   referred_by_id |-> referrerId]

\* lines 126-161: the insert; a constraint violation is logged and rethrown
register_insert(p) ==
  /\ pc[p] = "reg_insert"
  /\ UNCHANGED <<products, transactions, referrals, calls>>
  /\ IF EmailTaken(inp[p][1].email)
     THEN /\ UNCHANGED users
          /\ Finish(p, RetThrow("register", "unique constraint: email"))
     ELSE IF ReferralCodeTaken(loc[p][1])
          THEN /\ UNCHANGED users
               /\ Finish(p, RetThrow("register", "unique constraint: referral_code"))
          ELSE /\ users' = Append(users, newUser(inp[p][1], loc[p][1], loc[p][2]))
               /\ Finish(p, RetValue("register", newUser(inp[p][1], loc[p][1], loc[p][2])))

\* ------------------------------------------------------ transaction queries
\* the smaller of two numbers
Min(a, b) == IF a < b THEN a ELSE b

\* the WHERE clause getTransactions builds: user_id when it is defined,
\* status when it is truthy
matchesFilter(row, input) ==
  /\ input.user_id # NullNum => row.user_id = input.user_id
  /\ TruthyStr(input.status) => row.status = input.status

\* the rows a SELECT ... WHERE over transactions matches
filterTransactions(input) ==
  SelectSeq(transactions, LAMBDA row : matchesFilter(row, input))

\* ORDER BY created_at DESC: every arrangement of the rows with the newer
\* ones first; the store is free in how it arranges rows with equal
\* created_at
newestFirst(rows) ==
  { [i \in 1..Len(rows) |-> rows[f[i]]] :
      f \in { g \in Permutations(1..Len(rows)) :
                \A i, j \in 1..Len(rows) :
                  i < j => rows[g[i]].created_at >= rows[g[j]].created_at } }

\* variant: the offset is computed from the page number itself
offsetOf_pageTimesLimit(page, limit) == page * limit

\* const offset = (page - 1) * limit
offsetOf(page, limit) == (page - 1) * limit

\* .limit(limit).offset(offset) over the ordered rows
limitOffset(ordered, page, limit) ==
  SubSeq(ordered, offsetOf(page, limit) + 1,
         Min(offsetOf(page, limit) + limit, Len(ordered)))

\* the object the three listing handlers return
transactionPage(ordered, total, page, limit) ==
  [transactions |->
     [i \in 1..Len(limitOffset(ordered, page, limit)) |->
        convertDbTransaction(limitOffset(ordered, page, limit)[i])],
   total |-> total,
   page |-> page,
   limit |-> limit]

\* getTransactions: the page query and the count query; no operation of
\* the specification that runs it writes the store, so both see one store
getTransactions(p, input) ==
  /\ CanStart(p)
  /\ calls' = calls + 1
  /\ UNCHANGED store
  /\ \E ordered \in newestFirst(filterTransactions(input)) :
       Finish(p, RetValue("getTransactions",
                   transactionPage(ordered, Len(filterTransactions(input)),
                                   input.page, input.limit)))

\* getUserTransactions: the same two queries with the user_id condition
getUserTransactions(p, userId, page, limit) ==
  /\ CanStart(p)
  /\ calls' = calls + 1
  /\ UNCHANGED store
  /\ \E ordered \in newestFirst(SelectSeq(transactions, LAMBDA row : row.user_id = userId)) :
       Finish(p, RetValue("getUserTransactions",
                   transactionPage(ordered,
                     Len(SelectSeq(transactions, LAMBDA row : row.user_id = userId)),
                     page, limit)))

\* admin getAllTransactions: the count query, then the page query
getAllTransactions(p, page, limit) ==
  /\ CanStart(p)
  /\ calls' = calls + 1
  /\ UNCHANGED store
  /\ \E ordered \in newestFirst(transactions) :
       Finish(p, RetValue("getAllTransactions",
                   transactionPage(ordered, Len(transactions), page, limit)))

\* variant: the lookup ignores the code and takes the first user
selectIdAndNameByReferralCode_any(referralCode) ==
  [i \in 1..Len(users) |-> [id |-> users[i].id, full_name |-> users[i].full_name]]

\* SELECT id, full_name FROM users WHERE referral_code = referralCode
selectIdAndNameByReferralCode(referralCode) ==
  [i \in 1..Len(selectUsersByReferralCode(referralCode)) |->
     [id |-> selectUsersByReferralCode(referralCode)[i].id,
      full_name |-> selectUsersByReferralCode(referralCode)[i].full_name]]

\* validateReferralCode: one SELECT; { valid: false } when nothing matched
validateReferralCode(p, referralCode) ==
  /\ CanStart(p)
  /\ calls' = calls + 1
  /\ UNCHANGED store
  /\ IF Len(selectIdAndNameByReferralCode(referralCode)) = 0
     THEN Finish(p, RetValue("validateReferralCode", [valid |-> FALSE]))
     ELSE Finish(p, RetValue("validateReferralCode",
                   [valid |-> TRUE,
                    referrer_id |-> selectIdAndNameByReferralCode(referralCode)[1].id,
                    referrer_name |-> selectIdAndNameByReferralCode(referralCode)[1].full_name]))

\* ------------------------------------------------------------ catalogue sync
\* MOCK_SERVICES: the provider's price list (the fields the sync reads)
MOCK_SERVICES ==
  << [buyer_sku_code |-> "TELKOMSEL_5000", price |-> 5275,
      buyer_product_status |-> TRUE, seller_product_status |-> TRUE,
      unlimited_stock |-> TRUE, stock |-> 999999, multi |-> FALSE],
     [buyer_sku_code |-> "XL_10000", price |-> 10250,
      buyer_product_status |-> TRUE, seller_product_status |-> TRUE,
      unlimited_stock |-> TRUE, stock |-> 999999, multi |-> FALSE],
     [buyer_sku_code |-> "PLN_20000", price |-> 20500,
      buyer_product_status |-> TRUE, seller_product_status |-> TRUE,
      unlimited_stock |-> TRUE, stock |-> 999999, multi |-> FALSE] >>

\* getDigiflazzServices with mock data: the entries both sides offer
getDigiflazzServices ==
  SelectSeq(MOCK_SERVICES,
            LAMBDA service : service.buyer_product_status /\ service.seller_product_status)

\* productData: the columns the sync writes for a provider entry
productData(service) ==
  [sku |-> service.buyer_sku_code,
   price |-> ToNumeric(service.price),
   is_active |-> service.buyer_product_status /\ service.seller_product_status,
   min_amount |-> IF service.multi THEN ToNumeric(1) ELSE NullNum,
   max_amount |-> IF service.unlimited_stock THEN NullNum ELSE ToNumeric(service.stock),
   denomination_type |-> IF service.multi THEN "range" ELSE "fixed"]

\* SELECT ... FROM products WHERE sku = ... LIMIT 1
selectProductBySku(sku) ==
  SelectSeq(products, LAMBDA row : row.sku = sku)

\* UPDATE products SET productData WHERE sku = ...
updateProductsTable(table, service) ==
  [i \in 1..Len(table) |->
     IF table[i].sku = service.buyer_sku_code
     THEN [id |-> table[i].id] @@ productData(service)
     ELSE table[i]]

\* variant: the products table accepts a second row with a stored sku
SkuTaken_noConstraint(sku) == FALSE

\* products.sku is declared unique(): an insert of a stored sku is rejected
SkuTaken(sku) == \E i \in 1..Len(products) : products[i].sku = sku

\* the row an INSERT INTO products stores
newProduct(service) ==
  [id |-> Len(products) + 1] @@ productData(service)

\* syncProductsFromDigiflazz up to its first await in the loop: the price
\* list is fetched, errors = [] and synced = 0
syncProductsFromDigiflazz(p) ==
  /\ CanStart(p)
  /\ calls' = calls + 1
  /\ UNCHANGED store
  /\ IF Len(getDigiflazzServices) = 0
     THEN Finish(p, RetValue("syncProductsFromDigiflazz", [synced |-> 0, errors |-> <<>>]))
     ELSE /\ pc' = [pc EXCEPT ![p] = "sync_select"]
          /\ UNCHANGED <<inp, ret>>
          /\ loc' = [loc EXCEPT ![p] = <<1, 0, <<>>, FALSE>>]

\* the loop body up to the write: existingProduct is read
syncProducts_select(p) ==
  /\ pc[p] = "sync_select"
  /\ pc' = [pc EXCEPT ![p] = "sync_write"]
  /\ loc' = [loc EXCEPT ![p] =
       <<loc[p][1], loc[p][2], loc[p][3],
         Len(selectProductBySku(getDigiflazzServices[loc[p][1]].buyer_sku_code)) > 0>>]
  /\ UNCHANGED <<store, calls, inp, ret>>

\* variant: a failed entry ends the loop
syncContinue_stopOnError(p, synced, errors) ==
  IF loc[p][1] = Len(getDigiflazzServices) \/ Len(errors) > Len(loc[p][3])
  THEN Finish(p, RetValue("syncProductsFromDigiflazz",
                          [synced |-> synced, errors |-> errors]))
  ELSE /\ pc' = [pc EXCEPT ![p] = "sync_select"]
       /\ loc' = [loc EXCEPT ![p] = <<loc[p][1] + 1, synced, errors, FALSE>>]
       /\ UNCHANGED <<inp, ret>>

\* the end of a loop iteration: the next entry, or return { synced, errors }
syncContinue(p, synced, errors) ==
  IF loc[p][1] = Len(getDigiflazzServices)
  THEN Finish(p, RetValue("syncProductsFromDigiflazz",
                          [synced |-> synced, errors |-> errors]))
  ELSE /\ pc' = [pc EXCEPT ![p] = "sync_select"]
       /\ loc' = [loc EXCEPT ![p] = <<loc[p][1] + 1, synced, errors, FALSE>>]
       /\ UNCHANGED <<inp, ret>>

\* the write of the loop body: UPDATE when the entry was found, INSERT
\* otherwise; synced++ after it, errors.push when the store rejected it
syncProducts_write(p) ==
  /\ pc[p] = "sync_write"
  /\ UNCHANGED <<users, transactions, referrals, calls>>
  /\ IF loc[p][4]
     THEN /\ products' = updateProductsTable(products, getDigiflazzServices[loc[p][1]])
          /\ syncContinue(p, loc[p][2] + 1, loc[p][3])
     ELSE IF SkuTaken(getDigiflazzServices[loc[p][1]].buyer_sku_code)
     THEN /\ products' = products
          /\ syncContinue(p, loc[p][2],
                          Append(loc[p][3], getDigiflazzServices[loc[p][1]].buyer_sku_code))
     ELSE /\ products' = Append(products, newProduct(getDigiflazzServices[loc[p][1]]))
          /\ syncContinue(p, loc[p][2] + 1, loc[p][3])

\* ------------------------------------------------- provider response status
\* response.data.status === 'Sukses' && response.data.rc === '00'
isDigiflazzSuccess(response) ==
  response.data.status = "Sukses" /\ response.data.rc = "00"

\* status 'Pending' or 'Process', or message 'PROCESS'
isDigiflazzPending(response) ==
  \/ response.data.status = "Pending"
  \/ response.data.status = "Process"
  \/ response.data.message = "PROCESS"

\* variant: only the failure sentinels count as failed
isDigiflazzFailed_sentinelsOnly(response) ==
  \/ response.data.status = "Gagal"
  \/ response.data.message = "GAGAL"

\* status 'Gagal', message 'GAGAL', or rc other than '00' unless status 'Pending'
isDigiflazzFailed(response) ==
  \/ response.data.status = "Gagal"
  \/ response.data.message = "GAGAL"
  \/ (response.data.rc # "00" /\ response.data.status # "Pending")

\* a caller holding a provider response asks whether it reports success
call_isDigiflazzSuccess(p) ==
  /\ pc[p] = "classify"
  /\ ret' = RetValue("isDigiflazzSuccess", isDigiflazzSuccess(inp[p][1]))
  /\ UNCHANGED <<store, calls, pc, inp, loc>>

\* ... whether it is still being processed
call_isDigiflazzPending(p) ==
  /\ pc[p] = "classify"
  /\ ret' = RetValue("isDigiflazzPending", isDigiflazzPending(inp[p][1]))
  /\ UNCHANGED <<store, calls, pc, inp, loc>>

\* ... whether it reports a failure
call_isDigiflazzFailed(p) ==
  /\ pc[p] = "classify"
  /\ ret' = RetValue("isDigiflazzFailed", isDigiflazzFailed(inp[p][1]))
  /\ UNCHANGED <<store, calls, pc, inp, loc>>

\* ---------------------------------------------------------- specifications
\* purchase requests used where the claims are about settlement: a buyer
\* without and with a referrer on the fixed product, the referred buyer on
\* the range product, and on the fixed product with an explicit amount
SettlementOrders ==
  { [user_id |-> 1, product_id |-> 1, amount |-> NullNum],
    [user_id |-> 2, product_id |-> 1, amount |-> NullNum],
    [user_id |-> 2, product_id |-> 2, amount |-> 25000],
    [user_id |-> 2, product_id |-> 1, amount |-> 5510] }

\* status callbacks: every id, every status, with and without the optional
\* external id and provider payload
StatusUpdates ==
  { [transaction_id |-> t, status |-> s,
     external_transaction_id |-> x[1], digiflazz_response |-> x[2]] :
       t \in TransactionIdInputs, s \in TransactionStatus,
       x \in {<<NullStr, NullStr>>, <<"EXT_123456", "payload">>} }

\* transactionId argument of referrals.processCommission
InternalIdInputs == 1..3

Next ==
  \E p \in Procs :
    \/ \E input \in SettlementOrders, tid \in TransactionIdPool :
         createTransaction(p, input, tid)
    \/ \E input \in StatusUpdates : updateTransactionStatus(p, input)
    \/ processReferralCommission_select(p)
    \/ processReferralCommission_insert(p)
    \/ processReferralCommission_catch(p)
    \/ \E t \in InternalIdInputs : referrals_processReferralCommission(p, t)
    \/ referrals_processReferralCommission_insert(p)

Spec == Init /\ [][Next]_vars

\* the provider's status callback alone: purchases, status updates and the
\* settlement they run
NextCallbacks ==
  \E p \in Procs :
    \/ \E input \in SettlementOrders, tid \in TransactionIdPool :
         createTransaction(p, input, tid)
    \/ \E input \in StatusUpdates : updateTransactionStatus(p, input)
    \/ processReferralCommission_select(p)
    \/ processReferralCommission_insert(p)
    \/ processReferralCommission_catch(p)

SpecCallbacks == Init /\ [][NextCallbacks]_vars

\* every purchase request over the input spaces, and nothing else
CreateOrders ==
  { [user_id |-> u, product_id |-> pr, amount |-> a] :
      u \in UserIdInputs, pr \in ProductIdInputs, a \in AmountInputs }

NextCreate ==
  \E p \in Procs, input \in CreateOrders, tid \in TransactionIdPool :
    createTransaction(p, input, tid)

SpecCreate == Init /\ [][NextCreate]_vars

\* ------------------------------------------------------ the referral ledger
\* the referrer, a referred user who buys, a referred user who never bought
LedgerUsers ==
  Append(UsersFixture,
         [id |-> 3, email |-> "idle@test.com", full_name |-> "Idle User",
          referral_code |-> "REF003", referred_by_id |-> 1])

\* the catalogue after a sync of the provider's price list
SyncedProducts ==
  << [id |-> 1, sku |-> "TELKOMSEL_5000", price |-> ToNumeric(5275), is_active |-> TRUE,
      denomination_type |-> "fixed", min_amount |-> NullNum, max_amount |-> NullNum],
     [id |-> 2, sku |-> "XL_10000", price |-> ToNumeric(10250), is_active |-> TRUE,
      denomination_type |-> "fixed", min_amount |-> NullNum, max_amount |-> NullNum] >>

\* two purchases of the referred user: the first delivered, the second open
LedgerTransactions ==
  << [id |-> 1, user_id |-> 2, product_id |-> 1, transaction_id |-> "TXN_1",
      external_transaction_id |-> NullStr, amount |-> ToNumeric(5275),
      price |-> ToNumeric(5275), status |-> "success",
      digiflazz_response |-> NullStr, created_at |-> 0, updated_at |-> 0],
     [id |-> 2, user_id |-> 2, product_id |-> 2, transaction_id |-> "TXN_2",
      external_transaction_id |-> NullStr, amount |-> ToNumeric(10250),
      price |-> ToNumeric(10250), status |-> "pending",
      digiflazz_response |-> NullStr, created_at |-> 0, updated_at |-> 0] >>

\* the first purchase's commission, settled by its status update and paid out
LedgerReferrals ==
  << [id |-> 1, referrer_id |-> 1, referred_id |-> 2,
      commission_amount |-> calculateCommission(ToNumeric(5275)),
      transaction_id |-> 1, is_paid |-> TRUE, created_at |-> 0] >>

InitLedger ==
  /\ users = LedgerUsers
  /\ products = SyncedProducts
  /\ transactions = LedgerTransactions
  /\ referrals = LedgerReferrals
  /\ calls = 0
  /\ pc = [p \in Procs |-> "idle"]
  /\ inp = [p \in Procs |-> NoInput]
  /\ loc = [p \in Procs |-> NoLocals]
  /\ ret = NoRet

\* status callbacks for the two purchases
LedgerUpdates ==
  {input \in StatusUpdates :
     /\ input.transaction_id \in TransactionIdPool
     /\ input.status \in {"success", "failed"}
     /\ input.external_transaction_id = NullStr}

\* referralId argument of referrals.markAsPaid: stored ids and an unknown one
ReferralIdInputs == 1..3

\* userId argument of the two ledger queries: the referrer, a user without
\* referred users or commissions, and an unknown id
LedgerUserIdInputs == {1, 2, 4}

NextLedger ==
  \E p \in Procs :
    \/ \E input \in LedgerUpdates : updateTransactionStatus(p, input)
    \/ processReferralCommission_select(p)
    \/ processReferralCommission_insert(p)
    \/ \E t \in InternalIdInputs : referrals_processReferralCommission(p, t)
    \/ referrals_processReferralCommission_insert(p)
    \/ \E referralId \in ReferralIdInputs : markReferralAsPaid(p, referralId)
    \/ \E userId \in LedgerUserIdInputs : getUserReferralEarnings(p, userId)
    \/ \E userId \in LedgerUserIdInputs : getUserReferrals(p, userId)

SpecLedger == InitLedger /\ [][NextLedger]_vars

\* ------------------------------------------------------------ registration
\* email argument: one that is stored and two that are not
EmailInputs == {"referrer@test.com", "user1@example.com", "user2@example.com"}

\* referral_code argument: omitted, empty, a stored user's code, unknown
ReferralCodeInputs == {NullStr, "", "REF001", "INVALID123"}

RegisterInputs ==
  { [email |-> e, full_name |-> "New User", referral_code |-> c] :
      e \in EmailInputs, c \in ReferralCodeInputs }

\* values generateReferralCode can return
ReferralCodePool == {"REFAAAAAA", "REFBBBBBB"}

NextRegister ==
  \E p \in Procs :
    \/ \E input \in RegisterInputs : register(p, input)
    \/ \E referralCode \in ReferralCodePool :
         register_generateReferralCode(p, referralCode)
    \/ register_findReferrer(p)
    \/ register_insert(p)

SpecRegister == Init /\ [][NextRegister]_vars

\* ------------------------------------------------- referral record history
\* one registration that names the referrer's code
HistoryRegisterInputs ==
  { input \in RegisterInputs :
      input.email = "user1@example.com" /\ input.referral_code = "REF001" }

\* every operation that writes users, transactions or referrals, over the
\* ledger's store
NextHistory ==
  \E p \in Procs :
    \/ \E input \in LedgerUpdates : updateTransactionStatus(p, input)
    \/ processReferralCommission_select(p)
    \/ processReferralCommission_insert(p)
    \/ \E t \in InternalIdInputs : referrals_processReferralCommission(p, t)
    \/ referrals_processReferralCommission_insert(p)
    \/ \E referralId \in ReferralIdInputs : markReferralAsPaid(p, referralId)
    \/ \E input \in HistoryRegisterInputs : register(p, input)
    \/ \E referralCode \in {"REFAAAAAA"} :
         register_generateReferralCode(p, referralCode)
    \/ register_findReferrer(p)
    \/ register_insert(p)

SpecHistory == InitLedger /\ [][NextHistory]_vars

\* ------------------------------------------------------------ read queries
\* the i-th stored transaction of the query store: the first three were
\* stored at the same instant, the second belongs to the referrer, the
\* third is still pending
QueryTransaction(i) ==
  [id |-> i,
   user_id |-> IF i = 2 THEN 1 ELSE 2,
   product_id |-> 1,
   transaction_id |-> IF i = 1 THEN "TXN_1" ELSE IF i = 2 THEN "TXN_2" ELSE "TXN_N",
   external_transaction_id |-> NullStr,
   amount |-> ProductsFixture[1].price,
   price |-> ProductsFixture[1].price,
   status |-> IF i = 3 THEN "pending" ELSE "success",
   digiflazz_response |-> NullStr,
   created_at |-> (i + 2) \div 3,
   updated_at |-> (i + 2) \div 3]

\* the stores the queries run over: none to MaxRows transactions
QueryStores == { [i \in 1..n |-> QueryTransaction(i)] : n \in 0..MaxRows }

InitQueries ==
  /\ users = UsersFixture
  /\ products = ProductsFixture
  /\ transactions \in QueryStores
  /\ referrals = <<>>
  /\ calls = 0
  /\ pc = [p \in Procs |-> "idle"]
  /\ inp = [p \in Procs |-> NoInput]
  /\ loc = [p \in Procs |-> NoLocals]
  /\ ret = NoRet

\* page and limit arguments: every page up to one beyond the last
PageInputs == 1..(MaxRows + 1)
LimitInputs == 1..MaxRows

\* getTransactionsInputSchema: optional user and status filters
GetTransactionsInputs ==
  { [user_id |-> u, status |-> st, page |-> pg, limit |-> l] :
      u \in {NullNum, 2}, st \in {NullStr, "success"},
      pg \in PageInputs, l \in LimitInputs }

\* referralCode argument of referrals.validateCode
ValidateCodeInputs == {"REF001", "REF002", "INVALID123", ""}

NextQueries ==
  \E p \in Procs :
    \/ \E input \in GetTransactionsInputs : getTransactions(p, input)
    \/ \E userId \in UserIdInputs, page \in PageInputs, limit \in LimitInputs :
         getUserTransactions(p, userId, page, limit)
    \/ \E page \in PageInputs, limit \in LimitInputs :
         getAllTransactions(p, page, limit)
    \/ \E referralCode \in ValidateCodeInputs : validateReferralCode(p, referralCode)

SpecQueries == InitQueries /\ [][NextQueries]_vars

\* -------------------------------------------------------- catalogue syncs
\* the catalogue before a sync: empty, the test products, or an earlier
\* price of the first entry of the price list
SyncStores ==
  { <<>>,
    ProductsFixture,
    << [id |-> 1, sku |-> "TELKOMSEL_5000", price |-> ToNumeric(5000),
        is_active |-> FALSE, denomination_type |-> "fixed",
        min_amount |-> NullNum, max_amount |-> NullNum] >> }

InitSync ==
  /\ users = UsersFixture
  /\ products \in SyncStores
  /\ transactions = <<>>
  /\ referrals = <<>>
  /\ calls = 0
  /\ pc = [p \in Procs |-> "idle"]
  /\ inp = [p \in Procs |-> NoInput]
  /\ loc = [p \in Procs |-> NoLocals]
  /\ ret = NoRet

NextSync ==
  \E p \in Procs :
    \/ syncProductsFromDigiflazz(p)
    \/ syncProducts_select(p)
    \/ syncProducts_write(p)

SpecSync == InitSync /\ [][NextSync]_vars

\* ------------------------------------------------------ provider responses
\* the fields of an order response the classifiers read: the sentinels the
\* code names and one other value of each field
DigiflazzStatuses == {"Sukses", "Pending", "Process", "Gagal", "Unknown"}
DigiflazzMessages == {"SUKSES", "PROCESS", "GAGAL", "Transaksi Diterima"}
DigiflazzRcs == {"00", "01", "99"}

DigiflazzOrderResponses ==
  { [data |-> [status |-> st, message |-> m, rc |-> rc]] :
      st \in DigiflazzStatuses, m \in DigiflazzMessages, rc \in DigiflazzRcs }

\* the first caller holds a response of the provider
InitDigiflazz ==
  /\ users = UsersFixture
  /\ products = ProductsFixture
  /\ transactions = <<>>
  /\ referrals = <<>>
  /\ calls = 0
  /\ pc = [p \in Procs |-> IF p = 1 THEN "classify" ELSE "idle"]
  /\ \E response \in DigiflazzOrderResponses :
       inp = [p \in Procs |-> IF p = 1 THEN <<response>> ELSE NoInput]
  /\ loc = [p \in Procs |-> NoLocals]
  /\ ret = NoRet

NextDigiflazz ==
  \E p \in Procs :
    \/ call_isDigiflazzSuccess(p)
    \/ call_isDigiflazzPending(p)
    \/ call_isDigiflazzFailed(p)

SpecDigiflazz == InitDigiflazz /\ [][NextDigiflazz]_vars

\* ------------------------------------------------------------ properties
\* indices of the stored transactions with this transaction_id
RowsWithTransactionId(tid) ==
  {i \in 1..Len(transactions) : transactions[i].transaction_id = tid}

\* the Referral records of the transaction with internal id t
ReferralsOf(t) == {i \in 1..Len(referrals) : referrals[i].transaction_id = t}

\* slot p finishes its call in this step by the settlement insert
SettlementInsertStep(p) == pc[p] = "prc_insert" /\ pc'[p] = "idle"

\* round(price * 0.05) in hundredths, price in hundredths
RoundedCommissionOfPrice(price) ==
  Scale * ((5 * price + 50 * Scale) \div (100 * Scale))

\* C1: once a Referral exists for a transaction whose buyer has a referrer,
\* a later delivery of 'success' for the same transaction_id (one that
\* started after that record was stored) adds no second record: the
\* transaction keeps exactly one Referral record.
C1_RepeatedSuccessKeepsOneReferral ==
  [][\A p \in Procs :
       (/\ SettlementInsertStep(p)
        /\ \E i \in ReferralsOf(loc[p][1].id) :
              referrals[i].created_at < loc[p][1].updated_at)
       => /\ referrals' = referrals
          /\ Cardinality(ReferralsOf(loc[p][1].id)) = 1]_vars

\* C2: when two 'success' deliveries for the same transaction_id overlap
\* (a Referral for the transaction was stored while this call was already
\* running), the second insert is rejected: the store never holds more than
\* one Referral for the transaction, and the call still returns the
\* updated transaction.
C2_ConcurrentSuccessKeepsOneReferral ==
  [][\A p \in Procs :
       (/\ SettlementInsertStep(p)
        /\ \E i \in ReferralsOf(loc[p][1].id) :
              referrals[i].created_at >= loc[p][1].updated_at)
       => /\ referrals' = referrals
          /\ ret' = RetValue("updateTransactionStatus", loc[p][1])]_vars

\* C3: every Referral record created by updateTransactionStatus('success')
\* has referrer_id = the buyer's referrer, referred_id = the buyer,
\* is_paid = false and commission_amount = round(transaction.price * 0.05).
C3_ReferralFieldsFromPrice ==
  \A i \in 1..Len(referrals) :
    /\ referrals[i].transaction_id \in 1..Len(transactions)
    /\ referrals[i].referred_id = transactions[referrals[i].transaction_id].user_id
    /\ referrals[i].referrer_id = users[referrals[i].referred_id].referred_by_id
    /\ referrals[i].is_paid = FALSE
    /\ referrals[i].commission_amount =
         RoundedCommissionOfPrice(transactions[referrals[i].transaction_id].price)

\* C4: a Referral record is created only by the settlement that
\* updateTransactionStatus runs for the transaction it has just set to
\* 'success'; no other operation adds a Referral record.
C4_ReferralOnlyFromSuccessTransition ==
  [][Len(referrals') > Len(referrals)
       => \E p \in Procs :
            /\ SettlementInsertStep(p)
            /\ inp[p][1].status = "success"
            /\ referrals'[Len(referrals')].transaction_id = loc[p][1].id]_vars

\* status callbacks that carry the given kind of status
UpdatesWithStatus(statuses) == {input \in StatusUpdates : input.status \in statuses}

\* C5: updateTransactionStatus triggers settlement iff the new status is
\* 'success': a call with pending, processing, failed or cancelled is over
\* after its update and leaves the Referral records unchanged; a call with
\* 'success' that matched a transaction goes on to settlement.
C5_SettlementIffSuccess ==
  [][/\ (referrals' = referrals /\ pc' = pc)
        \/ ~ \E input \in UpdatesWithStatus(TransactionStatus \ {"success"}) :
               \E p \in Procs : updateTransactionStatus(p, input)
     /\ \A input \in UpdatesWithStatus({"success"}) :
          \A p \in Procs :
            (RowsWithTransactionId(input.transaction_id) # {}
               /\ updateTransactionStatus(p, input))
            => pc'[p] = "prc_select" /\ referrals' = referrals]_vars

\* a non-success update of a stored transaction of a referred buyer has
\* returned, and there is no Referral record
C5_Witness ==
  /\ ret.op = "updateTransactionStatus"
  /\ ret.kind = "value"
  /\ ret.val[1].status \in TransactionStatus \ {"success"}
  /\ users[ret.val[1].user_id].referred_by_id # NullNum
  /\ referrals = <<>>

\* the buyer of the transaction row has no referrer
BuyerHasNoReferrer(row) == ~ TruthyNum(users[row.user_id].referred_by_id)

\* C6: settlement for a buyer with referred_by = null creates no Referral
\* and is not an error: the status-update path returns the transaction, the
\* exported processReferralCommission returns null; and no Referral record
\* ever has a referred user without a referrer.
C6_NoReferrerNoReferral ==
  /\ [](\A i \in 1..Len(referrals) :
          /\ users[referrals[i].referred_id].referred_by_id # NullNum
          /\ referrals[i].referrer_id = users[referrals[i].referred_id].referred_by_id)
  /\ [][\A p \in Procs :
          /\ (pc[p] \in {"prc_select", "prc_insert"} /\ pc'[p] # pc[p]
                /\ BuyerHasNoReferrer(loc[p][1]))
             => /\ referrals' = referrals
                /\ ret' = RetValue("updateTransactionStatus", loc[p][1])
          /\ \A t \in InternalIdInputs :
               (/\ t \in 1..Len(transactions)
                /\ BuyerHasNoReferrer(transactions[t])
                /\ referrals_processReferralCommission(p, t))
               => /\ referrals' = referrals
                  /\ ret' = RetNull("processReferralCommission")]_vars

\* a 'success' update for a buyer without referrer has returned the
\* transaction and the transaction has no Referral record
C6_Witness ==
  /\ ret.op = "updateTransactionStatus"
  /\ ret.kind = "value"
  /\ ret.val[1].status = "success"
  /\ BuyerHasNoReferrer(ret.val[1])
  /\ ReferralsOf(ret.val[1].id) = {}

\* the values the UPDATE of a status callback stores for its input
StoredAsDelivered(row, input) ==
  /\ row.transaction_id = input.transaction_id
  /\ row.status = input.status
  /\ row.external_transaction_id = input.external_transaction_id
  /\ row.digiflazz_response = input.digiflazz_response

\* C7: when the referrer lookup or the Referral insert fails during
\* updateTransactionStatus('success'), nothing is rolled back and no error
\* propagates: the store is left as it is, the stored transaction still
\* carries this call's update (unless a later callback has overwritten it),
\* and the call returns the transaction as this call updated it.
C7_SettlementFailureSwallowed ==
  [][\A p \in Procs :
       (pc[p] \in {"prc_select", "prc_insert"} /\ pc'[p] = "idle"
          /\ Len(referrals') = Len(referrals))
       => /\ transactions' = transactions
          /\ ret'.op = "updateTransactionStatus"
          /\ ret'.kind = "value"
          /\ StoredAsDelivered(ret'.val[1], inp[p][1])
          /\ LET stored == transactions'[ret'.val[1].id]
             IN  /\ stored.updated_at >= ret'.val[1].updated_at
                 /\ stored.updated_at = ret'.val[1].updated_at
                      => stored = ret'.val[1]]_vars

\* a 'success' update for a referred buyer has returned the transaction,
\* the update is stored, and settlement stored no Referral for it
C7_Witness ==
  /\ ret.op = "updateTransactionStatus"
  /\ ret.kind = "value"
  /\ ret.val[1].status = "success"
  /\ ~ BuyerHasNoReferrer(ret.val[1])
  /\ ReferralsOf(ret.val[1].id) = {}
  /\ transactions[ret.val[1].id] = ret.val[1]
  /\ \A p \in Procs : pc[p] = "idle"

\* status callbacks whose transaction_id matches no / some stored transaction
UnmatchedUpdates ==
  {input \in StatusUpdates : RowsWithTransactionId(input.transaction_id) = {}}
MatchedUpdates == StatusUpdates \ UnmatchedUpdates

\* C8: updateTransactionStatus with a transaction_id that matches no stored
\* transaction returns null, raises no error and changes no Transaction or
\* Referral record; when it matches, exactly the one transaction with that
\* transaction_id is modified and every other one is unchanged.
C8_UnknownIdIsNoOp ==
  [][/\ (/\ ret' = RetNull("updateTransactionStatus")
         /\ pc' = pc
         /\ transactions' = transactions
         /\ referrals' = referrals)
        \/ ~ \E input \in UnmatchedUpdates :
               \E p \in Procs : updateTransactionStatus(p, input)
     /\ \A input \in MatchedUpdates :
          (\E p \in Procs : updateTransactionStatus(p, input))
          => /\ Len(transactions') = Len(transactions)
             /\ Cardinality({i \in 1..Len(transactions) :
                               transactions'[i] # transactions[i]}) = 1
             /\ \A i \in 1..Len(transactions) :
                  transactions'[i] # transactions[i]
                    => transactions[i].transaction_id = input.transaction_id
             /\ pc' = pc => ret'.kind = "value"]_vars

\* a callback for an unknown transaction_id has returned null while the
\* store holds a transaction and a Referral record
C8_Witness ==
  /\ ret = RetNull("updateTransactionStatus")
  /\ Len(transactions) > 0
  /\ Len(referrals) > 0

\* purchase requests of an existing user for an active product of the given
\* denomination type
OrdersFor(type) ==
  {input \in CreateOrders :
     /\ input.user_id \in 1..Len(users)
     /\ input.product_id \in 1..Len(products)
     /\ products[input.product_id].is_active
     /\ products[input.product_id].denomination_type = type}

\* C9: for an active range product with both bounds, createTransaction
\* rejects every supplied amount below min_amount or above max_amount and
\* persists nothing; it accepts every supplied amount within the bounds and
\* persists a transaction whose amount is exactly the supplied value.
C9_RangeBoundsEnforced ==
  [][\A input \in OrdersFor("range"), tid \in TransactionIdPool :
       (/\ products[input.product_id].min_amount # NullNum
        /\ products[input.product_id].max_amount # NullNum
        /\ input.amount # NullNum
        /\ \E p \in Procs : createTransaction(p, input, tid))
       => IF \/ ToNumeric(input.amount) < products[input.product_id].min_amount
             \/ ToNumeric(input.amount) > products[input.product_id].max_amount
          THEN ret'.kind = "throw" /\ transactions' = transactions
          ELSE ~ TransactionIdTaken(tid)
               => /\ ret'.kind = "value"
                  /\ Len(transactions') = Len(transactions) + 1
                  /\ transactions'[Len(transactions')].amount = ToNumeric(input.amount)]_vars

\* C10: for an active fixed product, createTransaction with amount omitted
\* (and a generated identifier not yet stored) persists exactly one new
\* transaction with amount = price = the product's current price and
\* status 'pending', returns it, and creates no Referral record.
C10_FixedDefaultsToPrice ==
  [][\A input \in OrdersFor("fixed"), tid \in TransactionIdPool :
       (/\ input.amount = NullNum
        /\ ~ TransactionIdTaken(tid)
        /\ \E p \in Procs : createTransaction(p, input, tid))
       => /\ Len(transactions') = Len(transactions) + 1
          /\ SubSeq(transactions', 1, Len(transactions)) = transactions
          /\ LET row == transactions'[Len(transactions')]
             IN  /\ row.amount = products[input.product_id].price
                 /\ row.price = products[input.product_id].price
                 /\ row.status = "pending"
                 /\ row.user_id = input.user_id
                 /\ row.product_id = input.product_id
                 /\ ret' = RetValue("createTransaction", row)
          /\ referrals' = referrals]_vars

\* a purchase of the fixed product has returned a pending transaction whose
\* amount and price are the product's price, and no Referral exists
C10_Witness ==
  /\ ret.op = "createTransaction"
  /\ ret.kind = "value"
  /\ products[ret.val[1].product_id].denomination_type = "fixed"
  /\ ret.val[1].amount = products[ret.val[1].product_id].price
  /\ ret.val[1].price = products[ret.val[1].product_id].price
  /\ ret.val[1].status = "pending"
  /\ transactions[ret.val[1].id] = ret.val[1]
  /\ referrals = <<>>

\* purchase requests that fail one of the checks before the insert: unknown
\* user, unknown product, inactive product, or an amount outside the bounds
RejectedOrders ==
  {input \in CreateOrders :
     \/ input.user_id \notin 1..Len(users)
     \/ input.product_id \notin 1..Len(products)
     \/ ~ products[input.product_id].is_active
     \/ /\ products[input.product_id].denomination_type = "range"
        /\ TruthyNum(input.amount)
        /\ \/ ToNumeric(input.amount) < products[input.product_id].min_amount
           \/ ToNumeric(input.amount) > products[input.product_id].max_amount}

\* the rejected purchase requests, among a few accepted ones that fill the
\* store
NextRejected ==
  \E p \in Procs, input \in RejectedOrders \cup SettlementOrders,
     tid \in TransactionIdPool :
    createTransaction(p, input, tid)

SpecRejected == Init /\ [][NextRejected]_vars

\* the message of the check a rejected purchase request fails first
RejectionOf(input) ==
  IF input.user_id \notin 1..Len(users) THEN {"User not found"}
  ELSE IF input.product_id \notin 1..Len(products) THEN {"Product not found"}
  ELSE IF ~ products[input.product_id].is_active THEN {"Product is not active"}
  ELSE {"Amount must be at least", "Amount must not exceed"}

ExportedInsertStep(p) ==
  /\ pc[p] = "xprc_insert"
  /\ pc'[p] = "idle"
  /\ Len(referrals') = Len(referrals) + 1

\* C12: the exported processReferralCommission records commission_amount =
\* price * 5% rounded to the nearest whole currency unit: the stored and the
\* returned commission is an integer number of currency units.
C12_ExportedCommissionWholeUnits ==
  [][\A p \in Procs :
       ExportedInsertStep(p)
       => LET r == referrals'[Len(referrals')]
          IN  /\ r.commission_amount = RoundedCommissionOfPrice(loc[p][1].price)
              /\ r.commission_amount % Scale = 0
              /\ ret' = RetValue("processReferralCommission", r)]_vars

\* C13: once a Referral record has is_paid = true it never becomes false
\* again (and is never removed), whatever operation takes the step.
C13_PaidStaysPaid ==
  [][\A i \in 1..Len(referrals) :
       referrals[i].is_paid
       => i \in 1..Len(referrals') /\ referrals'[i].is_paid]_vars

\* a paid Referral is still paid after a later markReferralAsPaid on it,
\* after a status update and settlement added a second record
C13_Witness ==
  /\ Len(referrals) = 2
  /\ referrals[1].is_paid
  /\ ret.op = "markReferralAsPaid"
  /\ ret.kind = "value"
  /\ ret.val[1].id = 1
  /\ \E i \in 1..Len(transactions) : transactions[i].updated_at > 0

\* C14: markReferralAsPaid on a stored referral id sets is_paid = true,
\* leaves every other field and record unchanged and returns the record;
\* applied to a record that is already paid it changes nothing and returns
\* that same record; on an id that matches no Referral it returns null and
\* changes nothing.
C14_MarkAsPaidIdempotent ==
  [][\A referralId \in ReferralIdInputs :
       (\E p \in Procs : markReferralAsPaid(p, referralId))
       => /\ UNCHANGED <<users, products, transactions>>
          /\ IF referralId \in 1..Len(referrals)
             THEN /\ referrals' = [referrals EXCEPT ![referralId].is_paid = TRUE]
                  /\ ret' = RetValue("markReferralAsPaid", referrals'[referralId])
                  /\ referrals[referralId].is_paid
                     => /\ referrals' = referrals
                        /\ ret' = RetValue("markReferralAsPaid", referrals[referralId])
             ELSE /\ referrals' = referrals
                  /\ ret' = RetNull("markReferralAsPaid")]_vars

\* markReferralAsPaid was applied to the record that was already paid and
\* returned it, and the ledger is as it was before
C14_Witness ==
  /\ ret = RetValue("markReferralAsPaid", LedgerReferrals[1])
  /\ referrals = LedgerReferrals
  /\ calls > 0

\* the stored transactions of user u that are in status 'success'
SuccessfulTransactionsOf(u) ==
  {i \in 1..Len(transactions) :
     transactions[i].user_id = u /\ transactions[i].status = "success"}

\* sum of the prices of the transactions with these ids
RECURSIVE SumOfPrices(_)
SumOfPrices(S) ==
  IF S = {} THEN 0
  ELSE LET i == CHOOSE j \in S : TRUE
       IN  transactions[i].price + SumOfPrices(S \ {i})

\* C15: getUserReferrals(u) returns exactly the users whose referred_by_id
\* is u, each with total_transactions = the number of that user's 'success'
\* transactions and total_spent = the sum of their price; a referred user
\* without a successful transaction is listed with 0 and 0.
C15_ReferredUsersStatistics ==
  [][\A userId \in LedgerUserIdInputs :
       (\E p \in Procs : getUserReferrals(p, userId))
       => /\ ret'.op = "getUserReferrals"
          /\ ret'.kind = "value"
          /\ LET rows == ret'.val[1].referred_users
                 referred == {i \in 1..Len(users) : users[i].referred_by_id = userId}
             IN  /\ ret'.val[1].total_referred = Cardinality(referred)
                 /\ Len(rows) = Cardinality(referred)
                 /\ {rows[k].id : k \in 1..Len(rows)} = referred
                 /\ \A k \in 1..Len(rows) :
                      /\ rows[k].total_transactions =
                           Cardinality(SuccessfulTransactionsOf(rows[k].id))
                      /\ rows[k].total_spent =
                           SumOfPrices(SuccessfulTransactionsOf(rows[k].id))
                      /\ SuccessfulTransactionsOf(rows[k].id) = {}
                         => /\ rows[k].total_transactions = 0
                            /\ rows[k].total_spent = 0]_vars

\* getUserReferrals has returned a referred user with a successful and a
\* not successful transaction, and one without any transaction
C15_Witness ==
  /\ ret.op = "getUserReferrals"
  /\ ret.kind = "value"
  /\ \E k \in 1..Len(ret.val[1].referred_users) :
       /\ ret.val[1].referred_users[k].total_transactions = 1
       /\ \E i \in 1..Len(transactions) :
            /\ transactions[i].user_id = ret.val[1].referred_users[k].id
            /\ transactions[i].status # "success"
  /\ \E k \in 1..Len(ret.val[1].referred_users) :
       /\ ret.val[1].referred_users[k].total_transactions = 0
       /\ ret.val[1].referred_users[k].total_spent = 0

\* sum of the commission amounts of the Referral records with these ids
RECURSIVE SumOfCommissions(_)
SumOfCommissions(S) ==
  IF S = {} THEN 0
  ELSE LET i == CHOOSE j \in S : TRUE
       IN  referrals[i].commission_amount + SumOfCommissions(S \ {i})

\* the Referral records earned by user u, all / unpaid / paid
EarnedBy(u) == {i \in 1..Len(referrals) : referrals[i].referrer_id = u}
UnpaidOf(u) == {i \in EarnedBy(u) : ~ referrals[i].is_paid}
PaidOf(u) == {i \in EarnedBy(u) : referrals[i].is_paid}

\* C16: getUserReferralEarnings(u) returns pending_earnings = the sum of
\* commission_amount over u's unpaid records, paid_earnings = the sum over
\* u's paid records, total_earnings = pending + paid, total_referrals = the
\* number of records, and zeros with an empty list when u has none; a
\* markReferralAsPaid on an unpaid record of u moves its amount from pending
\* to paid and leaves total_earnings unchanged.
C16_EarningsSummary ==
  [][/\ \A userId \in LedgerUserIdInputs :
          (\E p \in Procs : getUserReferralEarnings(p, userId))
          => /\ ret'.op = "getUserReferralEarnings"
             /\ ret'.kind = "value"
             /\ LET e == ret'.val[1]
                IN  /\ e.pending_earnings = SumOfCommissions(UnpaidOf(userId))
                    /\ e.paid_earnings = SumOfCommissions(PaidOf(userId))
                    /\ e.total_earnings = e.pending_earnings + e.paid_earnings
                    /\ e.total_referrals = Cardinality(EarnedBy(userId))
                    /\ {e.referrals[k] : k \in 1..Len(e.referrals)}
                         = {referrals[i] : i \in EarnedBy(userId)}
                    /\ EarnedBy(userId) = {}
                       => /\ e.total_earnings = 0
                          /\ e.pending_earnings = 0
                          /\ e.paid_earnings = 0
                          /\ e.total_referrals = 0
                          /\ e.referrals = <<>>
     /\ \A referralId \in ReferralIdInputs :
          (/\ referralId \in 1..Len(referrals)
           /\ ~ referrals[referralId].is_paid
           /\ \E p \in Procs : markReferralAsPaid(p, referralId))
          => LET u == referrals[referralId].referrer_id
                 a == referrals[referralId].commission_amount
             IN  /\ referralEarnings(u)'.pending_earnings
                      = referralEarnings(u).pending_earnings - a
                 /\ referralEarnings(u)'.paid_earnings
                      = referralEarnings(u).paid_earnings + a
                 /\ referralEarnings(u)'.total_earnings
                      = referralEarnings(u).total_earnings]_vars

\* getUserReferralEarnings has returned a summary with a paid and an unpaid
\* commission
C16_Witness ==
  /\ ret.op = "getUserReferralEarnings"
  /\ ret.kind = "value"
  /\ ret.val[1].total_referrals = 2
  /\ ret.val[1].pending_earnings > 0
  /\ ret.val[1].paid_earnings > 0
  /\ ret.val[1].total_earnings
       = ret.val[1].pending_earnings + ret.val[1].paid_earnings

\* C17: in every reachable state no two Transaction records share a
\* transaction_id, and the row a createTransaction call adds never carries
\* an identifier that was already stored: a colliding insert fails.
C17_TransactionIdUnique ==
  /\ [](\A i, j \in 1..Len(transactions) :
          i # j => transactions[i].transaction_id # transactions[j].transaction_id)
  /\ [][Len(transactions') > Len(transactions)
          => /\ Len(transactions') = Len(transactions) + 1
             /\ RowsWithTransactionId(
                  transactions'[Len(transactions')].transaction_id) = {}]_vars

\* a purchase whose generated identifier was already stored has failed on
\* the unique constraint, after two purchases were stored
C17_Witness ==
  /\ ret = RetThrow("createTransaction", "unique constraint: transaction_id")
  /\ Len(transactions) = 2
  /\ transactions[1].transaction_id # transactions[2].transaction_id

\* the stored users with this email / this referral code
UsersWithEmail(email) == {i \in 1..Len(users) : users[i].email = email}
UsersWithReferralCode(code) ==
  {i \in 1..Len(users) : users[i].referral_code = code}

\* registration requests whose email belongs to a stored user
DuplicateRegistrations ==
  {input \in RegisterInputs : UsersWithEmail(input.email) # {}}

\* C18: a register call with an email that already belongs to a stored user
\* is rejected with the 'already exists' conflict and stores nothing; and in
\* every reachable state at most one user has a given email, whatever the
\* interleaving of register calls with the same email.
C18_EmailRegisteredOnce ==
  /\ [](\A i, j \in 1..Len(users) : i # j => users[i].email # users[j].email)
  /\ [][\A input \in DuplicateRegistrations :
          (\E p \in Procs : register(p, input))
          => /\ ret' = RetThrow("register", "User with this email already exists")
             /\ store' = store
             /\ pc' = pc]_vars

\* two overlapping registrations with the same email both passed the
\* pre-check; the store rejected the second insert and holds one such user
C18_Witness ==
  /\ ret = RetThrow("register", "unique constraint: email")
  /\ \E i \in 1..Len(users) :
       /\ i > Len(UsersFixture)
       /\ UsersWithEmail(users[i].email) = {i}

\* slot p's registration is at its insert, its email is free and its
\* candidate referral code has been stored by another registration
ReferralCodeRaceLost(p) ==
  /\ pc[p] = "reg_insert"
  /\ UsersWithEmail(inp[p][1].email) = {}
  /\ UsersWithReferralCode(loc[p][1]) # {}

\* C19: when register's insert hits the unique constraint on referral_code
\* because a concurrent registration stored the same candidate after the
\* pre-check, register does not fail: it goes back to draw a new candidate
\* (or has stored the user).
C19_ReferralCodeCollisionRetried ==
  [][\A p \in Procs :
       (ReferralCodeRaceLost(p) /\ pc'[p] # pc[p])
       => \/ pc'[p] = "reg_code"
          \/ ret'.kind = "value" /\ Len(users') = Len(users) + 1]_vars

\* C20: the referrer register looks up is the stored user whose
\* referral_code equals the supplied one, and none when the code is omitted,
\* empty or unknown; in every case the registration goes on and stores the
\* new user with referred_by_id = that referrer's id, or null.
C20_ReferrerFromReferralCode ==
  [][\A p \in Procs :
       /\ (pc[p] = "reg_referrer" /\ pc'[p] # pc[p])
          => /\ pc'[p] = "reg_insert"
             /\ LET code == inp[p][1].referral_code
                IN  IF code \notin {NullStr, ""} /\ UsersWithReferralCode(code) # {}
                    THEN loc'[p][2] \in UsersWithReferralCode(code)
                    ELSE loc'[p][2] = NullNum
       /\ (pc[p] = "reg_insert" /\ pc'[p] # pc[p]
             /\ UsersWithEmail(inp[p][1].email) = {}
             /\ UsersWithReferralCode(loc[p][1]) = {})
          => /\ Len(users') = Len(users) + 1
             /\ SubSeq(users', 1, Len(users)) = users
             /\ users'[Len(users')].email = inp[p][1].email
             /\ users'[Len(users')].referred_by_id = loc[p][2]
             /\ ret' = RetValue("register", users'[Len(users')])]_vars

\* a registration with the referrer's code has stored a user referred by
\* the referrer, and one with an unknown or no code a user without referrer
C20_Witness ==
  /\ Len(users) = Len(UsersFixture) + 2
  /\ users[Len(users) - 1].referred_by_id = 1
  /\ users[Len(users)].referred_by_id = NullNum
  /\ ret = RetValue("register", users[Len(users)])

\* the stored transactions a filter matches, counted row by row
MatchCount(input) ==
  Cardinality({ i \in 1..Len(transactions) :
                  /\ input.user_id # NullNum => transactions[i].user_id = input.user_id
                  /\ input.status # NullStr => transactions[i].status = input.status })

\* min(limit, max(0, T - (page - 1) * limit))
ExpectedPageSize(T, page, limit) ==
  IF T - (page - 1) * limit <= 0 THEN 0
  ELSE IF T - (page - 1) * limit < limit THEN T - (page - 1) * limit ELSE limit

\* ceil(T / limit)
LastPage(T, limit) == (T + limit - 1) \div limit

RECURSIVE SumOfPageSizes(_, _, _)
SumOfPageSizes(T, lastPage, limit) ==
  IF lastPage = 0 THEN 0
  ELSE ExpectedPageSize(T, lastPage, limit) + SumOfPageSizes(T, lastPage - 1, limit)

\* what a listing of T matching transactions must answer for page and limit
PageCountsAgree(result, T, page, limit) ==
  /\ Len(result.transactions) = ExpectedPageSize(T, page, limit)
  /\ result.total = T
  /\ page > LastPage(T, limit) => result.transactions = <<>>
  /\ SumOfPageSizes(T, LastPage(T, limit), limit) = T

\* the getTransactions inputs asking for the page and limit a result echoes
GetTransactionsLike(result) ==
  { input \in GetTransactionsInputs :
      input.page = result.page /\ input.limit = result.limit }

\* C21: over a fixed store with T transactions matching the filter,
\* getTransactions, getUserTransactions and getAllTransactions called with
\* page and limit >= 1 return min(limit, max(0, T - (page-1)*limit)) items
\* and total = T; the page sizes of pages 1..ceil(T/limit) add up to T and
\* every later page is empty
C21_PageCounts ==
  [][ /\ ret'.op = "getTransactions" =>
           \A input \in GetTransactionsLike(ret'.val[1]) :
             (\E p \in Procs : getTransactions(p, input))
               => PageCountsAgree(ret'.val[1], MatchCount(input), input.page, input.limit)
      /\ ret'.op = "getUserTransactions" =>
           \A userId \in UserIdInputs :
             (\E p \in Procs : getUserTransactions(p, userId, ret'.val[1].page, ret'.val[1].limit))
               => PageCountsAgree(ret'.val[1],
                    MatchCount([user_id |-> userId, status |-> NullStr]),
                    ret'.val[1].page, ret'.val[1].limit)
      /\ ret'.op = "getAllTransactions" =>
           ((\E p \in Procs : getAllTransactions(p, ret'.val[1].page, ret'.val[1].limit))
              => PageCountsAgree(ret'.val[1], Len(transactions),
                                 ret'.val[1].page, ret'.val[1].limit)) ]_vars

\* a second page that is the last one and only partly filled was returned
C21_Witness ==
  /\ ret.op \in {"getTransactions", "getUserTransactions", "getAllTransactions"}
  /\ ret.val[1].page = 2
  /\ ret.val[1].limit = 2
  /\ Len(ret.val[1].transactions) = 1
  /\ ret.val[1].total = 3

\* users registered under a referral code
UsersWithCode(referralCode) ==
  { i \in 1..Len(users) : users[i].referral_code = referralCode }

\* C25: validateReferralCode answers valid = true with the id and the full
\* name of the user registered under the code when there is one, answers
\* valid = false without referrer fields otherwise, and writes nothing
C25_ValidateReferralCode ==
  [][ \A referralCode \in ValidateCodeInputs :
        (\E p \in Procs : validateReferralCode(p, referralCode))
          => /\ store' = store
             /\ ret'.kind = "value"
             /\ IF UsersWithCode(referralCode) = {}
                THEN ret'.val[1] = [valid |-> FALSE]
                ELSE \E i \in UsersWithCode(referralCode) :
                       ret'.val[1] = [valid |-> TRUE,
                                      referrer_id |-> users[i].id,
                                      referrer_name |-> users[i].full_name] ]_vars

\* both answers were given: a known code named its referrer
C25_Witness ==
  /\ ret.op = "validateReferralCode"
  /\ ret.val[1].valid
  /\ ret.val[1].referrer_id = 1
  /\ ret.val[1].referrer_name = "Referrer User"

\* the rows in created_at descending order with equal created_at in id
\* order, ascending or descending
TieBrokenById(rows, ascending) ==
  CHOOSE o \in newestFirst(rows) :
    \A i, j \in 1..Len(o) :
      (i < j /\ o[i].created_at = o[j].created_at)
        => IF ascending THEN o[i].id < o[j].id ELSE o[i].id > o[j].id

\* the page of the rows under one of the two id orders
IsTieBrokenPage(result, rows, page, limit) ==
  \E ascending \in BOOLEAN :
    result.transactions = transactionPage(TieBrokenById(rows, ascending),
                                          Len(rows), page, limit).transactions

\* C26: the listings are ordered by created_at descending with ties on
\* created_at broken by id, so every page returned is the page of that one
\* sequence (identical queries repeat it, consecutive pages neither repeat
\* nor skip a transaction)
C26_TiesBrokenById ==
  [][ /\ ret'.op = "getTransactions" =>
           \A input \in GetTransactionsLike(ret'.val[1]) :
             (\E p \in Procs : getTransactions(p, input))
               => IsTieBrokenPage(ret'.val[1], filterTransactions(input),
                                  input.page, input.limit)
      /\ ret'.op = "getUserTransactions" =>
           \A userId \in UserIdInputs :
             (\E p \in Procs : getUserTransactions(p, userId, ret'.val[1].page, ret'.val[1].limit))
               => IsTieBrokenPage(ret'.val[1],
                    filterTransactions([user_id |-> userId, status |-> NullStr]),
                    ret'.val[1].page, ret'.val[1].limit)
      /\ ret'.op = "getAllTransactions" =>
           ((\E p \in Procs : getAllTransactions(p, ret'.val[1].page, ret'.val[1].limit))
              => IsTieBrokenPage(ret'.val[1], transactions,
                                 ret'.val[1].page, ret'.val[1].limit)) ]_vars

\* the stored products with a sku
ProductsWithSku(table, sku) == { i \in 1..Len(table) : table[i].sku = sku }

\* the provider entry a sync in progress is working on
EntryOf(p) == getDigiflazzServices[loc[p][1]]

\* the stored products with the entry's sku carry the entry's data
StoredAsListed(table, service) ==
  /\ ProductsWithSku(table, service.buyer_sku_code) # {}
  /\ \A i \in ProductsWithSku(table, service.buyer_sku_code) :
       /\ table[i].price = service.price * Scale
       /\ table[i].is_active = (service.buyer_product_status /\ service.seller_product_status)
       /\ table[i].denomination_type = (IF service.multi THEN "range" ELSE "fixed")

\* every entry of the price list has a product
WholeListStored ==
  \A k \in 1..Len(getDigiflazzServices) :
    ProductsWithSku(products, getDigiflazzServices[k].buyer_sku_code) # {}

\* C22: whatever syncs ran, one after another or interleaved, no two
\* products share a sku; a write for an entry whose sku is stored adds no
\* product, and updates the stored one when the sync found it; once the
\* whole price list is stored a sync leaves the number of products unchanged
C22_SyncKeepsSkuUnique ==
  /\ [](\A i, j \in 1..Len(products) : products[i].sku = products[j].sku => i = j)
  /\ [][ \A p \in Procs :
           syncProducts_write(p)
             => /\ ProductsWithSku(products, EntryOf(p).buyer_sku_code) # {}
                     => Len(products') = Len(products)
                /\ loc[p][4]
                     => /\ StoredAsListed(products', EntryOf(p))
                        /\ \A i \in 1..Len(products) : products'[i].id = products[i].id
                /\ WholeListStored => Len(products') = Len(products) ]_vars

\* a second sync has finished over a catalogue that held an older price of
\* the first entry: still one product per sku, the old one updated in place
C22_Witness ==
  /\ calls >= 2
  /\ \A p \in Procs : pc[p] = "idle"
  /\ ret.op = "syncProductsFromDigiflazz"
  /\ ret.val[1].synced = Len(getDigiflazzServices)
  /\ Len(products) = Len(getDigiflazzServices)
  /\ products[1].sku = "TELKOMSEL_5000"
  /\ products[1].price = 527500

\* synced and errors of a sync after its step: returned, or carried on
SyncedAfter(p) == IF pc'[p] = "idle" THEN ret'.val[1].synced ELSE loc'[p][2]
ErrorsAfter(p) == IF pc'[p] = "idle" THEN ret'.val[1].errors ELSE loc'[p][3]

\* C23: a sync works through every entry of the price list: each write
\* either persists the entry and counts it in synced, or leaves the
\* catalogue as it was and appends one message to errors; after either the
\* sync goes on with the next entry, and it returns after the last with
\* synced + number of errors = number of entries
C23_SyncProcessesEveryEntry ==
  /\ [](\A p \in Procs :
          pc[p] \in {"sync_select", "sync_write"}
            => loc[p][2] + Len(loc[p][3]) = loc[p][1] - 1)
  /\ [][ \A p \in Procs :
           syncProducts_write(p)
             => /\ \/ /\ SyncedAfter(p) = loc[p][2] + 1
                      /\ ErrorsAfter(p) = loc[p][3]
                      /\ StoredAsListed(products', EntryOf(p))
                      /\ loc[p][4] \/ Len(products') = Len(products) + 1
                   \/ /\ SyncedAfter(p) = loc[p][2]
                      /\ Len(ErrorsAfter(p)) = Len(loc[p][3]) + 1
                      /\ products' = products
                /\ loc[p][1] < Len(getDigiflazzServices)
                     => /\ pc'[p] = "sync_select"
                        /\ loc'[p][1] = loc[p][1] + 1
                /\ loc[p][1] = Len(getDigiflazzServices)
                     => /\ pc'[p] = "idle"
                        /\ ret'.op = "syncProductsFromDigiflazz"
                        /\ ret'.val[1].synced + Len(ret'.val[1].errors)
                             = Len(getDigiflazzServices) ]_vars

\* a sync returned after one of its entries was rejected and a later one
\* was persisted
C23_Witness ==
  /\ ret.op = "syncProductsFromDigiflazz"
  /\ ret.val[1].errors = <<"TELKOMSEL_5000">>
  /\ ret.val[1].synced = 2

\* the response is outside the success and pending sentinels and its
\* response code is not the OK code
OutsideSentinelsNotOk(response) ==
  /\ response.data.status \notin {"Sukses", "Pending", "Process"}
  /\ response.data.rc # "00"

\* C24: for a response whose status is none of 'Sukses', 'Pending',
\* 'Process' and whose rc is not '00', isDigiflazzFailed answers true and
\* isDigiflazzSuccess answers false
C24_UnknownStatusNotOkIsFailed ==
  [][ \A p \in Procs :
        (pc[p] = "classify" /\ OutsideSentinelsNotOk(inp[p][1]))
          => /\ call_isDigiflazzFailed(p) => ret'.val[1] = TRUE
             /\ call_isDigiflazzSuccess(p) => ret'.val[1] = FALSE ]_vars

\* a response with an unknown status and message and a failing rc was
\* classified as failed
C24_Witness ==
  /\ ret.op = "isDigiflazzFailed"
  /\ ret.val[1] = TRUE
  /\ inp[1][1].data.status = "Unknown"
  /\ inp[1][1].data.message = "Transaksi Diterima"
  /\ inp[1][1].data.rc = "99"

\* how many of the three classifiers accept a response
ClassifiersAccepting(response) ==
  Cardinality({ name \in {"success", "pending", "failed"} :
                  \/ name = "success" /\ isDigiflazzSuccess(response)
                  \/ name = "pending" /\ isDigiflazzPending(response)
                  \/ name = "failed" /\ isDigiflazzFailed(response) })

\* C30: for every response that was classified, exactly one of
\* isDigiflazzSuccess, isDigiflazzPending and isDigiflazzFailed answers true
C30_ExactlyOneClassifier ==
  \A p \in Procs :
    (pc[p] = "classify" /\ ret.kind = "value")
      => ClassifiersAccepting(inp[p][1]) = 1

\* C27: whatever operation runs (registration, status update, either
\* settlement, markReferralAsPaid), every stored Referral keeps its place,
\* id, referrer_id, referred_id, commission_amount and transaction_id;
\* only is_paid may change
C27_ReferralFieldsImmutable ==
  [][ /\ Len(referrals') >= Len(referrals)
      /\ \A i \in 1..Len(referrals) :
           /\ referrals'[i].id = referrals[i].id
           /\ referrals'[i].referrer_id = referrals[i].referrer_id
           /\ referrals'[i].referred_id = referrals[i].referred_id
           /\ referrals'[i].commission_amount = referrals[i].commission_amount
           /\ referrals'[i].transaction_id = referrals[i].transaction_id ]_vars

\* a Referral created by a settlement was later marked as paid and a user
\* registered after it, and it still names its referrer, buyer and amount
C27_Witness ==
  /\ Len(referrals) >= 2
  /\ referrals[2].is_paid
  /\ referrals[2].referrer_id = 1
  /\ referrals[2].referred_id = 2
  /\ referrals[2].transaction_id = 2
  /\ Len(users) > Len(LedgerUsers)

\* the statuses that end a transaction's life
TerminalStatuses == {"success", "failed", "cancelled"}

\* C28: a transaction in a terminal status (success, failed, cancelled)
\* keeps that status under every later step, and a transaction that holds
\* a Referral is in status success
C28_TerminalStatusKept ==
  /\ [][ \A i \in 1..Len(transactions) :
           transactions[i].status \in TerminalStatuses
             => transactions'[i].status = transactions[i].status ]_vars
  /\ [](\A r \in 1..Len(referrals), i \in 1..Len(transactions) :
          referrals[r].transaction_id = transactions[i].id
            => transactions[i].status = "success")

\* the status updates that carry neither an external id nor a payload
UpdatesWithoutProviderData ==
  { input \in StatusUpdates :
      /\ input.external_transaction_id = NullStr
      /\ input.digiflazz_response = NullStr }

\* C29: an updateTransactionStatus call without external_transaction_id
\* and provider response leaves the stored external_transaction_id and
\* provider payload of every transaction as they were
C29_OmittedProviderDataKept ==
  [][ (\A i \in 1..Len(transactions) :
         /\ transactions'[i].external_transaction_id
              = transactions[i].external_transaction_id
         /\ transactions'[i].digiflazz_response = transactions[i].digiflazz_response)
      \/ ~ \E input \in UpdatesWithoutProviderData, p \in Procs :
             updateTransactionStatus(p, input) ]_vars

====
